---- MODULE Spec2Model ----
(***************************************************************************)
(* A model of helium-drm-fixer: the orchestrator (commands/index.ts), the  *)
(* path probers and the asset pattern (lib/paths.ts), the cached           *)
(* downloader (lib/chrome-downloader.ts), the extractor and the directory  *)
(* copier (lib/extractor.ts, lib/utils.ts).                                *)
(*                                                                         *)
(* Strings the code inspects character by character (asset names) are      *)
(* sequences of one-character strings.  A thrown Error is a record         *)
(* [kind, value]; a function that may throw returns [ok, val, err].        *)
(***************************************************************************)
EXTENDS Integers, Sequences, FiniteSets, TLC

\* ------------------------------------------------------------------ bounds
\* Number of distinct artifact contents the download server may deliver.
NumContents == 2
\* Number of release tags the metadata endpoint may report.
NumTags == 2
\* Longest asset list of a release in the asset-selection specification.
MaxAssets == 2
\* Number of Helium version folders the destination probe may find.
MaxDest == 2

\* The most calls of copyDir on one destination.
MaxCopies == 2

\* The most entries of a directory the probes list.
MaxEntries == 2

\* The most calls of the destination probe in a row.
MaxProbes == 2

\* ------------------------------------------------------------- characters
Digits == {"0", "1", "2", "3", "4", "5", "6", "7", "8", "9"}

X64 == <<"x", "6", "4">>

ARM64 == <<"a", "r", "m", "6", "4">>

IA32 == <<"i", "a", "3", "2">>

InstallerSuffix ==
  <<"_", "c", "h", "r", "o", "m", "e", "_", "i", "n", "s", "t", "a", "l", "l",
    "e", "r", "_", "u", "n", "c", "o", "m", "p", "r", "e", "s", "s", "e", "d",
    ".", "e", "x", "e">>

\* ---------------------------------------------------------------- values
Platforms == {"win32", "darwin", "linux", "freebsd"}

Archs == {"x64", "arm64", "ia32"}

\* A thrown Error: its message kind and the values the message names.
Err(k, v, p, a, pat) ==
  [kind |-> k, value |-> v, platform |-> p, arch |-> a, pattern |-> pat]

NoError == Err("none", "none", "none", "none", << >>)

Ok(v) == [ok |-> TRUE, val |-> v, err |-> NoError]

Throw(k, v) == [ok |-> FALSE, val |-> "none", err |-> Err(k, v, "none", "none", << >>)]

Min(S) == CHOOSE x \in S : \A y \in S : x <= y

\* ------------------------------------------------------------ lib/paths.ts
getPlatform(platform) ==
  IF platform \in {"win32", "darwin", "linux"}
    THEN Ok(platform)
    ELSE Throw("Unsupported platform", platform)

getArch(arch) ==
  IF arch \in {"x64", "arm64"}
    THEN Ok(arch)
    ELSE Throw("Unsupported architecture", arch)

\* getChromeAssetPattern without its platform test: a pattern on any platform.
getChromeAssetPattern_AnyPlatform(platform, arch) ==
  Ok(IF arch = "arm64" THEN ARM64 ELSE X64)

\* The RegExp ^<archPrefix>_[\d.]+_chrome_installer_uncompressed\.exe$ is
\* kept as its archPrefix, the only part that varies.
getChromeAssetPattern(platform, arch) ==
  LET p == getPlatform(platform)
      a == getArch(arch)
  IN  IF ~p.ok THEN p
      ELSE IF ~a.ok THEN a
      ELSE IF p.val = "win32"
        THEN Ok(IF a.val = "arm64" THEN ARM64 ELSE X64)
        ELSE Throw("Chrome download is only supported on Windows", "none")

\* The pattern without its architecture prefix.
PatternTest_AnyPrefix(archPrefix, name) ==
  LET n  == Len(name)
      hi == n - Len(InstallerSuffix)
  IN  /\ hi >= 1
      /\ SubSeq(name, hi + 1, n) = InstallerSuffix
      /\ \E lo \in 2..hi :
           /\ name[lo - 1] = "_"
           /\ \A i \in lo..hi : name[i] \in Digits \cup {"."}

\* RegExp.prototype.test for the pattern above: the anchored prefix and "_",
\* one or more characters of [\d.], the literal suffix, the end of the name.
PatternTest(archPrefix, name) ==
  LET pre == archPrefix \o <<"_">>
      n   == Len(name)
      lo  == Len(pre) + 1
      hi  == n - Len(InstallerSuffix)
  IN  /\ hi >= lo
      /\ SubSeq(name, 1, Len(pre)) = pre
      /\ SubSeq(name, hi + 1, n) = InstallerSuffix
      /\ \A i \in lo..hi : name[i] \in Digits \cup {"."}

\* ------------------------------------------------------------ asset names
\* <archPrefix>_<version>_chrome_installer_uncompressed.exe
MkName(archPrefix, version) == archPrefix \o <<"_">> \o version \o InstallerSuffix

Version1 == <<"1", "4", "3", ".", "0", ".", "7">>

Version2 == <<"9", ".", "1">>

DottedVersions == {Version1, Version2}

BadSuffixName == X64 \o <<"_">> \o Version1 \o <<"_", "c", "h", "r", "o", "m", "e", ".", "z", "i", "p">>

\* Names a release may list in the asset-selection specification: installers
\* of three architectures, and names the pattern must not accept.
NamePool ==
  {MkName(a, v) : a \in {X64, ARM64, IA32}, v \in DottedVersions}
    \cup {MkName(X64, << >>), MkName(ARM64, <<"1", "a">>), BadSuffixName,
          <<"y">> \o MkName(X64, Version1), MkName(X64, Version1) \o <<"e">>}

Asset(n) == [name |-> n]

Tags == 1..NumTags

Contents == 1..NumContents

\* The artifacts of the temporary directory, by file name.
CacheNames == {MkName(X64, Version1), MkName(ARM64, Version1)}

\* Releases of the run specifications: both installers, or no installer of a
\* supported architecture.
ReleasePool ==
  {[tag_name |-> t, assets |-> as] :
     t \in Tags,
     as \in {<<Asset(MkName(IA32, Version1)), Asset(MkName(ARM64, Version1)),
               Asset(MkName(X64, Version1))>>,
             <<Asset(MkName(IA32, Version1))>>}}

NoRelease == [tag_name |-> 0, assets |-> << >>]

\* ----------------------------------------------- lib/chrome-downloader.ts
findMatchingAsset(platform, arch, rel) ==
  LET pat == getChromeAssetPattern(platform, arch)
  IN  IF ~pat.ok THEN pat
      ELSE LET hits == {i \in 1..Len(rel.assets) : PatternTest(pat.val, rel.assets[i].name)}
           IN  IF hits = {}
                 THEN [ok |-> FALSE, val |-> "none",
                       err |-> Err("Could not find Chrome asset matching pattern for your platform/arch",
                                   "none", platform, arch, pat.val)]
                 ELSE Ok(rel.assets[Min(hits)])

\* SHA-256 of a file's content: a digest per content, no two alike.
calculateChecksum(content) == 2 * content + 1

Checksums == {calculateChecksum(c) : c \in Contents}

\* version.json: absent, unparsable, or a VersionCache record whose checksum
\* field may be missing (0).
VersionCache(t, n, c) == [kind |-> "json", tag |-> t, name |-> n, checksum |-> c]

AbsentVersionFile == [kind |-> "absent", tag |-> 0, name |-> << >>, checksum |-> 0]

CorruptVersionFile == [kind |-> "corrupt", tag |-> 0, name |-> << >>, checksum |-> 0]

VersionFiles ==
  {AbsentVersionFile, CorruptVersionFile}
    \cup {VersionCache(t, n, c) : t \in Tags, n \in CacheNames, c \in {0} \cup Checksums}

\* checkCachedVersion trusting the record's checksum without recomputing it.
checkCachedVersion_NoRecompute(fs, vfile, exeName, rel, forceDownload, platform, arch) ==
  IF forceDownload THEN FALSE
  ELSE IF fs[exeName] = 0 \/ vfile.kind = "absent" THEN FALSE
  ELSE IF vfile.kind = "corrupt" THEN FALSE
  ELSE IF vfile.tag # rel.tag_name \/ vfile.checksum = 0 THEN FALSE
  ELSE TRUE

\* checkCachedVersion without its forceDownload test.
checkCachedVersion_IgnoresForce(fs, vfile, exeName, rel, forceDownload, platform, arch) ==
  IF fs[exeName] = 0 \/ vfile.kind = "absent" THEN FALSE
  ELSE IF vfile.kind = "corrupt" THEN FALSE
  ELSE IF vfile.tag # rel.tag_name \/ vfile.checksum = 0 THEN FALSE
  ELSE IF calculateChecksum(fs[exeName]) # vfile.checksum THEN FALSE
  ELSE TRUE

\* checkCachedVersion without the comparison of the tags.
checkCachedVersion_AnyTag(fs, vfile, exeName, rel, forceDownload, platform, arch) ==
  IF forceDownload THEN FALSE
  ELSE IF fs[exeName] = 0 \/ vfile.kind = "absent" THEN FALSE
  ELSE IF vfile.kind = "corrupt" THEN FALSE
  ELSE IF vfile.checksum = 0 THEN FALSE
  ELSE IF calculateChecksum(fs[exeName]) # vfile.checksum THEN FALSE
  ELSE TRUE

checkCachedVersion(fs, vfile, exeName, rel, forceDownload, platform, arch) ==
  IF forceDownload THEN FALSE
  ELSE IF fs[exeName] = 0 \/ vfile.kind = "absent" THEN FALSE
  ELSE IF vfile.kind = "corrupt" THEN FALSE
  ELSE IF vfile.tag # rel.tag_name \/ vfile.checksum = 0 THEN FALSE
  ELSE IF calculateChecksum(fs[exeName]) # vfile.checksum THEN FALSE
  ELSE IF ~findMatchingAsset(platform, arch, rel).ok THEN FALSE
  ELSE TRUE

\* ------------------------------------------------------------------ paths
\* A path the run resolves, by how it was obtained and the version folder
\* it lies in; kind "none" is null.
Path(kind, name) == [kind |-> kind, name |-> name]

Null == Path("none", << >>)

\* /^\d+\.\d+\.\d+\.\d+$/ : four non-empty groups of digits, three dots.
VersionTest(name) ==
  LET n == Len(name)
  IN  /\ n >= 1
      /\ \A i \in 1..n : name[i] \in Digits \cup {"."}
      /\ Cardinality({i \in 1..n : name[i] = "."}) = 3
      /\ name[1] # "." /\ name[n] # "."
      /\ \A i \in 1..(n - 1) : ~(name[i] = "." /\ name[i + 1] = ".")

\* A scan that takes the first version folder without looking into it.
ScanVersions_FirstFolder(entries) ==
  LET hits == {i \in 1..Len(entries) :
                 entries[i].isDir /\ VersionTest(entries[i].name)}
  IN  IF hits = {} THEN Null ELSE Path("version", entries[Min(hits)].name)

\* The first version folder, in listing order, that holds the target as a
\* directory (the for loop of findChromeWidevinePath).
ScanVersions(entries) ==
  LET hits == {i \in 1..Len(entries) :
                 /\ entries[i].isDir
                 /\ VersionTest(entries[i].name)
                 /\ entries[i].widevine = "dir"}
  IN  IF hits = {} THEN Null ELSE Path("version", entries[Min(hits)].name)

\* cfs is what the file system holds around the Chrome executable: whether
\* BrowserFinder finds one, whether its directory can be listed, the
\* directory's entries, the direct path (linux) and the alias folder (darwin).
findChromeWidevinePath(platform, cfs) ==
  IF ~cfs.found THEN Null
  ELSE IF ~getPlatform(platform).ok THEN Null
  ELSE IF platform = "win32"
    THEN IF ~cfs.listable THEN Null ELSE ScanVersions(cfs.entries)
  ELSE IF platform = "darwin"
    THEN IF ~cfs.listable THEN Null
         ELSE IF ScanVersions(cfs.entries) # Null THEN ScanVersions(cfs.entries)
         ELSE IF cfs.alias = "dir" THEN Path("alias", << >>)
         ELSE Null
  ELSE IF cfs.direct = "dir" THEN Path("direct", << >>)
  ELSE IF cfs.direct = "file" THEN Null
  ELSE IF ~cfs.listable THEN Null
  ELSE ScanVersions(cfs.entries)

\* A destination probe that keeps the last version folder of the listing.
findHeliumVersionPath_LastMatch(platform, hfs) ==
  LET p == getPlatform(platform)
      hits == {i \in 1..Len(hfs.entries) :
                 hfs.entries[i].isDir /\ VersionTest(hfs.entries[i].name)}
  IN  IF ~p.ok THEN p
      ELSE IF hfs.base # "dir" THEN Ok(Null)
      ELSE IF ~hfs.listable THEN Throw("readdir failed", "none")
      ELSE IF hits = {} THEN Ok(Null)
      ELSE Ok(Path("helium", hfs.entries[CHOOSE i \in hits : \A j \in hits : i >= j].name))

\* hfs is the per-OS Helium base directory: a directory, a file or absent,
\* whether readdir can list it, and its entries in listing order.
findHeliumVersionPath(platform, hfs) ==
  LET p == getPlatform(platform)
      hits == {i \in 1..Len(hfs.entries) :
                 hfs.entries[i].isDir /\ VersionTest(hfs.entries[i].name)}
  IN  IF ~p.ok THEN p
      ELSE IF hfs.base # "dir" THEN Ok(Null)
      ELSE IF ~hfs.listable THEN Throw("readdir failed", "none")
      ELSE IF hits = {} THEN Ok(Null)
      ELSE Ok(Path("helium", hfs.entries[Min(hits)].name))

RECURSIVE VersionFolders(_)
VersionFolders(entries) ==
  IF entries = << >> THEN << >>
  ELSE IF Head(entries).isDir /\ VersionTest(Head(entries).name)
    THEN <<Path("helium", Head(entries).name)>> \o VersionFolders(Tail(entries))
    ELSE VersionFolders(Tail(entries))

\* The multi-destination probe that commands/index.ts imports: every folder
\* findHeliumVersionPath would accept, in listing order.
findHeliumVersionPaths(platform, hfs) ==
  LET p == getPlatform(platform)
  IN  IF ~p.ok THEN p
      ELSE IF hfs.base # "dir" THEN Ok(<< >>)
      ELSE IF ~hfs.listable THEN Throw("readdir failed", "none")
      ELSE Ok(VersionFolders(hfs.entries))

\* ------------------------------------------------------------ directories
\* A directory tree: the set of <<path, content>> of its files.
SrcTree == {<< <<"manifest.json">>, 1 >>, << <<"_platform_specific", "widevinecdm.dll">>, 1 >>}

StaleTree == {<< <<"manifest.json">>, 2 >>, << <<"old.dll">>, 2 >>}

\* The part of a tree below its entry name, and the rest of the tree.
Under(tree, name) ==
  {<<Tail(e[1]), e[2]>> : e \in {x \in tree : Len(x[1]) > 1 /\ Head(x[1]) = name}}

Outside(tree, name) == {e \in tree : Head(e[1]) # name}

\* path.join(dir, name) as a place in the tree of dir: sub becomes what is
\* below name.
Graft(tree, name, sub) ==
  Outside(tree, name) \cup {<< <<name>> \o e[1], e[2] >> : e \in sub}

\* What every destination holds before the run: stale files in the
\* directory itself and in its WidevineCdm.
DestTree0 == StaleTree \cup Graft({}, "WidevineCdm", StaleTree)

\* A removal that leaves dest as it is.
rm_Nothing(dest) == dest

\* fs rm(dest, {recursive, force}): nothing is left of dest.
rm(dest) == {}

\* fs cp(src, dest, {recursive, force}): the files of src are written over
\* dest; what dest holds under other names stays.
cp(src, dest) == src \cup {e \in dest : \A s \in src : s[1] # e[1]}

\* lib/utils.ts copyDir: rm(dest) then cp(src, dest).  It succeeds; or rm
\* fails and dest is as it was; or cp fails after rm and dest holds some
\* part of src.
copyDir(src, dest) ==
  {[ok |-> TRUE, tree |-> cp(src, rm(dest))], [ok |-> FALSE, tree |-> dest]}
    \cup {[ok |-> FALSE, tree |-> cp(t, rm(dest))] : t \in SUBSET src}

\* ------------------------------------------------------------------ inputs
Options ==
  [check : BOOLEAN, dryRun : BOOLEAN, chromePath : BOOLEAN,
   heliumPath : BOOLEAN, forceDownload : BOOLEAN]

DigitOf == <<"1", "2", "3", "4", "5", "6", "7", "8", "9">>

HeliumName(k) == <<"1", ".", "0", ".", "0", ".", DigitOf[k]>>

HeliumEntries(k) ==
  <<[name |-> <<"D", "i", "c", "t">>, isDir |-> TRUE]>>
    \o [i \in 1..k |-> [name |-> HeliumName(i), isDir |-> TRUE]]

HeliumInstalls ==
  {[base |-> "absent", listable |-> FALSE, entries |-> << >>],
   [base |-> "file", listable |-> FALSE, entries |-> << >>]}
    \cup {[base |-> "dir", listable |-> TRUE, entries |-> HeliumEntries(k)] : k \in 0..MaxDest}

NoHelium == [base |-> "absent", listable |-> FALSE, entries |-> << >>]

ChromeVersion == <<"1", "4", "3", ".", "0", ".", "7", ".", "1">>

NoChrome ==
  [found |-> FALSE, listable |-> FALSE, direct |-> "absent", entries |-> << >>,
   alias |-> "absent"]

ChromeInstalls ==
  {NoChrome,
   [found |-> TRUE, listable |-> TRUE, direct |-> "dir", alias |-> "dir",
    entries |-> <<[name |-> ChromeVersion, isDir |-> TRUE, widevine |-> "dir"]>>],
   [found |-> TRUE, listable |-> TRUE, direct |-> "absent", alias |-> "absent",
    entries |-> <<[name |-> ChromeVersion, isDir |-> TRUE, widevine |-> "absent"]>>]}

CustomHelium == Path("heliumCustom", << >>)

DestPaths == {CustomHelium} \cup {Path("helium", HeliumName(k)) : k \in 1..MaxDest}

DownloadFailures ==
  {"Failed to download Chrome installer",
   "Content-Length header not found in response",
   "stream read failed"}

\* ------------------------------------------------------------------- state
VARIABLES
  pc,                 \* where the run stands
  platform, arch,     \* process.platform, process.arch
  opts,               \* FixHeliumDrmOptions
  srcTree,            \* the files of the source WidevineCdm directory
  files,              \* artifacts of the temporary directory: name -> content, 0 absent
  versionFile,        \* version.json in the temporary directory
  widevineInTemp,     \* the temporary directory holds an extracted WidevineCdm
  release, asset, useCache,   \* locals of downloadAndExtractChrome
  chromeFs, heliumFs, \* what the probes read from the file system
  chromeWidevinePath, heliumVersionPaths, idx,   \* locals of fixHeliumDrm
  destTree,           \* the files of every destination directory
  copyLog,            \* the copyDir calls of the run: destination and outcome
  hint,               \* the installation hint was printed
  events,             \* the external calls of the run, in order
  error,              \* the Error that ended the run
  exitCode,           \* the process exit code, -1 while running
  prev,               \* the download the previous run completed, if untouched since
  disk0               \* the artifacts and version.json as the run found them

vars ==
  <<pc, platform, arch, opts, srcTree, files, versionFile, widevineInTemp, release, asset,
    useCache, chromeFs, heliumFs, chromeWidevinePath, heliumVersionPaths, idx,
    destTree, copyLog, hint, events, error, exitCode, prev, disk0>>

env == <<platform, arch, opts, srcTree>>

hist == <<prev, disk0>>

disk == <<files, versionFile, widevineInTemp>>

dlLocals == <<release, asset, useCache>>

orch == <<chromeFs, heliumFs, chromeWidevinePath, heliumVersionPaths, idx, destTree, copyLog, hint>>

NoPrev == [valid |-> FALSE, tag |-> 0, name |-> << >>]

RunLocalsInit ==
  /\ release = NoRelease
  /\ asset = << >>
  /\ useCache = FALSE
  /\ chromeFs = NoChrome
  /\ heliumFs = NoHelium
  /\ chromeWidevinePath = Null
  /\ heliumVersionPaths = << >>
  /\ idx = 0
  /\ copyLog = << >>
  /\ hint = FALSE
  /\ events = << >>
  /\ error = NoError
  /\ exitCode = -1

\* The disks a whole-program run starts from: one of each kind of cache.
StartDisks ==
  {[files |-> [n \in CacheNames |-> c], versionFile |-> v] :
     c \in {0} \cup Contents,
     v \in {AbsentVersionFile, CorruptVersionFile,
            VersionCache(1, MkName(X64, Version1), 0)}
           \cup {VersionCache(t, MkName(X64, Version1), calculateChecksum(1)) : t \in Tags}}

\* One run of the program (cli.ts): any platform, any options.
Init ==
  /\ pc = "start"
  /\ platform \in Platforms
  /\ arch \in Archs
  /\ opts \in Options
  /\ \E d \in StartDisks : files = d.files /\ versionFile = d.versionFile
  /\ widevineInTemp = FALSE
  /\ srcTree = SrcTree
  /\ destTree = [d \in DestPaths |-> DestTree0]
  /\ prev = NoPrev
  /\ disk0 = [files |-> files, versionFile |-> versionFile]
  /\ RunLocalsInit

\* A throw that reaches the catch of fixHeliumDrm or of the cli action:
\* process.exit(1).
Fail(e) ==
  /\ pc' = "exited"
  /\ exitCode' = 1
  /\ error' = e

\* ------------------------------------------------------ commands/index.ts
\* getChromeWidevinePath going on to the download whatever the probe found.
ResolveSource_AlwaysDownloads ==
  /\ pc = "start"
  /\ IF opts.chromePath
       THEN /\ chromeWidevinePath' = Path("custom", << >>)
            /\ pc' = "dest"
            /\ UNCHANGED <<chromeFs, events>>
       ELSE \E cfs \in ChromeInstalls :
              /\ chromeFs' = cfs
              /\ events' = Append(events, "probeChrome")
              /\ chromeWidevinePath' = findChromeWidevinePath(platform, cfs)
              /\ pc' = "fetch"
  /\ UNCHANGED <<env, disk, dlLocals, heliumFs, heliumVersionPaths, idx, destTree,
                 copyLog, hint, error, exitCode, hist>>

\* getChromeWidevinePath up to the call of downloadAndExtractChrome.
ResolveSource ==
  /\ pc = "start"
  /\ IF opts.chromePath
       THEN /\ chromeWidevinePath' = Path("custom", << >>)
            /\ pc' = "dest"
            /\ UNCHANGED <<chromeFs, events>>
       ELSE \E cfs \in ChromeInstalls :
              /\ chromeFs' = cfs
              /\ events' = Append(events, "probeChrome")
              /\ chromeWidevinePath' = findChromeWidevinePath(platform, cfs)
              /\ pc' = IF findChromeWidevinePath(platform, cfs) = Null
                         THEN "fetch" ELSE "dest"
  /\ UNCHANGED <<env, disk, dlLocals, heliumFs, heliumVersionPaths, idx, destTree,
                 copyLog, hint, error, exitCode, hist>>

\* ----------------------------------------------- lib/chrome-downloader.ts
\* fetchLatestRelease, and the catch around it.
FetchRelease ==
  /\ pc = "fetch"
  /\ events' = Append(events, "fetch")
  /\ \/ \E r \in ReleasePool :
          /\ release' = r
          /\ pc' = "select"
          /\ UNCHANGED <<error, exitCode>>
     \/ /\ Fail(Err("Failed to connect to GitHub API", "none", "none", "none", << >>))
        /\ UNCHANGED release
  /\ UNCHANGED <<env, disk, asset, useCache, orch, hist>>

SelectAsset ==
  /\ pc = "select"
  /\ LET r == findMatchingAsset(platform, arch, release)
     IN  IF r.ok
           THEN /\ asset' = r.val.name
                /\ pc' = "cache"
                /\ UNCHANGED <<error, exitCode>>
           ELSE /\ Fail(r.err)
                /\ UNCHANGED asset
  /\ UNCHANGED <<env, disk, release, useCache, orch, events, hist>>

\* CheckCache going straight to the search on a cache hit.
CheckCache_SkipsExtract ==
  /\ pc = "cache"
  /\ useCache' = checkCachedVersion(files, versionFile, asset, release,
                                    opts.forceDownload, platform, arch)
  /\ pc' = IF useCache' THEN "search" ELSE "download"
  /\ UNCHANGED <<env, disk, release, asset, orch, events, error, exitCode, hist>>

CheckCache ==
  /\ pc = "cache"
  /\ useCache' = checkCachedVersion(files, versionFile, asset, release,
                                    opts.forceDownload, platform, arch)
  /\ pc' = IF useCache' THEN "extract" ELSE "download"
  /\ UNCHANGED <<env, disk, release, asset, orch, events, error, exitCode, hist>>

\* A downloadFile that writes the chunks to the artifact as they arrive: a
\* failure leaves what was written so far.
Download_StreamsToDisk ==
  /\ pc = "download"
  /\ events' = Append(events, "download")
  /\ \E c \in Contents :
       /\ files' = [files EXCEPT ![asset] = c]
       /\ \/ pc' = "record" /\ UNCHANGED <<error, exitCode>>
          \/ \E f \in DownloadFailures : Fail(Err(f, "none", "none", "none", << >>))
  /\ UNCHANGED <<env, versionFile, widevineInTemp, dlLocals, orch, hist>>

\* downloadFile: the artifact is written once the whole body was read.
Download ==
  /\ pc = "download"
  /\ events' = Append(events, "download")
  /\ \/ \E c \in Contents :
          /\ files' = [files EXCEPT ![asset] = c]
          /\ pc' = "record"
          /\ UNCHANGED <<error, exitCode>>
     \/ \E f \in DownloadFailures :
          /\ Fail(Err(f, "none", "none", "none", << >>))
          /\ UNCHANGED files
  /\ UNCHANGED <<env, versionFile, widevineInTemp, dlLocals, orch, hist>>

\* WriteRecord persisting the record without its checksum.
WriteRecord_NoChecksum ==
  /\ pc = "record"
  /\ versionFile' = VersionCache(release.tag_name, asset, 0)
  /\ events' = Append(events, "record")
  /\ pc' = "extract"
  /\ UNCHANGED <<env, files, widevineInTemp, dlLocals, orch, error, exitCode, hist>>

\* calculateChecksum of the file just written, and Bun.write of version.json.
WriteRecord ==
  /\ pc = "record"
  /\ versionFile' = VersionCache(release.tag_name, asset, calculateChecksum(files[asset]))
  /\ events' = Append(events, "record")
  /\ pc' = "extract"
  /\ UNCHANGED <<env, files, widevineInTemp, dlLocals, orch, error, exitCode, hist>>

\* extractArchive into the temporary directory: the archive holds the target
\* directory or not; a failed unpack may have written part of it.
Extract ==
  /\ pc = "extract"
  /\ events' = Append(events, "extract")
  /\ \E has \in BOOLEAN :
       /\ widevineInTemp' = (widevineInTemp \/ has)
       /\ \/ pc' = "search" /\ UNCHANGED <<error, exitCode>>
          \/ Fail(Err("unpack failed", "none", "none", "none", << >>))
  /\ UNCHANGED <<env, files, versionFile, dlLocals, orch, hist>>

\* A search whose failure is logged and not thrown.
Search_LogsMissing ==
  /\ pc = "search"
  /\ events' = Append(events, "search")
  /\ pc' = "dest"
  /\ IF widevineInTemp
       THEN /\ chromeWidevinePath' = Path("extracted", << >>)
            /\ UNCHANGED error
       ELSE /\ error' = Err("Could not find WidevineCdm in downloaded Chrome", "none", "none", "none", << >>)
            /\ UNCHANGED chromeWidevinePath
  /\ UNCHANGED <<env, disk, dlLocals, chromeFs, heliumFs, heliumVersionPaths, idx,
                 destTree, copyLog, hint, exitCode, hist>>

\* findWidevineInExtracted over the temporary directory.
Search ==
  /\ pc = "search"
  /\ events' = Append(events, "search")
  /\ IF widevineInTemp
       THEN /\ chromeWidevinePath' = Path("extracted", << >>)
            /\ pc' = "dest"
            /\ UNCHANGED <<error, exitCode>>
       ELSE /\ Fail(Err("Could not find WidevineCdm in downloaded Chrome", "none", "none", "none", << >>))
            /\ UNCHANGED chromeWidevinePath
  /\ UNCHANGED <<env, disk, dlLocals, chromeFs, heliumFs, heliumVersionPaths, idx,
                 destTree, copyLog, hint, hist>>

\* ------------------------------------------------------ commands/index.ts
\* getHeliumVersionPaths printing the hint on an empty probe result without
\* process.exit(1).
getHeliumVersionPaths_NoExit ==
  /\ pc = "dest"
  /\ IF opts.heliumPath
       THEN /\ heliumVersionPaths' = <<CustomHelium>>
            /\ pc' = "mode"
            /\ UNCHANGED <<heliumFs, hint, events, error, exitCode>>
       ELSE \E hfs \in HeliumInstalls :
              LET r == findHeliumVersionPaths(platform, hfs)
              IN  /\ heliumFs' = hfs
                  /\ events' = Append(events, "probeHelium")
                  /\ IF ~r.ok
                       THEN Fail(r.err) /\ UNCHANGED <<heliumVersionPaths, hint>>
                       ELSE /\ hint' = (Len(r.val) = 0)
                            /\ heliumVersionPaths' = r.val
                            /\ pc' = "mode"
                            /\ UNCHANGED <<error, exitCode>>
  /\ UNCHANGED <<env, disk, dlLocals, chromeFs, chromeWidevinePath, idx, destTree,
                 copyLog, hist>>

getHeliumVersionPaths ==
  /\ pc = "dest"
  /\ IF opts.heliumPath
       THEN /\ heliumVersionPaths' = <<CustomHelium>>
            /\ pc' = "mode"
            /\ UNCHANGED <<heliumFs, hint, events, error, exitCode>>
       ELSE \E hfs \in HeliumInstalls :
              LET r == findHeliumVersionPaths(platform, hfs)
              IN  /\ heliumFs' = hfs
                  /\ events' = Append(events, "probeHelium")
                  /\ IF ~r.ok
                       THEN Fail(r.err) /\ UNCHANGED <<heliumVersionPaths, hint>>
                     ELSE IF Len(r.val) = 0
                       THEN /\ hint' = TRUE
                            /\ pc' = "exited"
                            /\ exitCode' = 1
                            /\ UNCHANGED <<heliumVersionPaths, error>>
                     ELSE /\ heliumVersionPaths' = r.val
                          /\ pc' = "mode"
                          /\ UNCHANGED <<hint, error, exitCode>>
  /\ UNCHANGED <<env, disk, dlLocals, chromeFs, chromeWidevinePath, idx, destTree,
                 copyLog, hist>>

\* if (options.check) return;
CheckOnly ==
  /\ pc = "mode"
  /\ IF opts.check
       THEN pc' = "exited" /\ exitCode' = 0 /\ UNCHANGED idx
       ELSE pc' = "copy" /\ idx' = 1 /\ UNCHANGED exitCode
  /\ UNCHANGED <<env, disk, dlLocals, chromeFs, heliumFs, chromeWidevinePath,
                 heliumVersionPaths, destTree, copyLog, hint, events, error, hist>>

\* The loop body without its dryRun test.
CopyOne_IgnoresDryRun ==
  /\ pc = "copy"
  /\ idx <= Len(heliumVersionPaths)
  /\ idx' = idx + 1
  /\ \E r \in copyDir(srcTree, Under(destTree[heliumVersionPaths[idx]], "WidevineCdm")) :
       /\ destTree' = [destTree EXCEPT ![heliumVersionPaths[idx]] =
                                               Graft(@, "WidevineCdm", r.tree)]
       /\ copyLog' = Append(copyLog, [dest |-> heliumVersionPaths[idx], ok |-> r.ok])
       /\ events' = Append(events, "copy")
  /\ UNCHANGED <<pc, env, disk, dlLocals, chromeFs, heliumFs, chromeWidevinePath,
                 heliumVersionPaths, hint, error, exitCode, hist>>

\* The loop body without its try/catch: a copyDir that throws ends the run.
CopyOne_AbortsOnFailure ==
  /\ pc = "copy"
  /\ idx <= Len(heliumVersionPaths)
  /\ idx' = idx + 1
  /\ IF opts.dryRun
       THEN UNCHANGED <<pc, exitCode, destTree, copyLog, events>>
       ELSE \E r \in copyDir(srcTree, Under(destTree[heliumVersionPaths[idx]], "WidevineCdm")) :
              /\ destTree' = [destTree EXCEPT ![heliumVersionPaths[idx]] =
                                               Graft(@, "WidevineCdm", r.tree)]
              /\ copyLog' = Append(copyLog, [dest |-> heliumVersionPaths[idx], ok |-> r.ok])
              /\ events' = Append(events, "copy")
              /\ pc' = IF r.ok THEN pc ELSE "exited"
              /\ exitCode' = IF r.ok THEN exitCode ELSE 1
  /\ UNCHANGED <<env, disk, dlLocals, chromeFs, heliumFs, chromeWidevinePath,
                 heliumVersionPaths, hint, error, hist>>

\* One turn of the loop over heliumVersionPaths.
CopyOne ==
  /\ pc = "copy"
  /\ idx <= Len(heliumVersionPaths)
  /\ idx' = idx + 1
  /\ IF opts.dryRun
       THEN UNCHANGED <<destTree, copyLog, events>>
       ELSE \E r \in copyDir(srcTree, Under(destTree[heliumVersionPaths[idx]], "WidevineCdm")) :
              /\ destTree' = [destTree EXCEPT ![heliumVersionPaths[idx]] =
                                               Graft(@, "WidevineCdm", r.tree)]
              /\ copyLog' = Append(copyLog, [dest |-> heliumVersionPaths[idx], ok |-> r.ok])
              /\ events' = Append(events, "copy")
  /\ UNCHANGED <<pc, env, disk, dlLocals, chromeFs, heliumFs, chromeWidevinePath,
                 heliumVersionPaths, hint, error, exitCode, hist>>

\* The loop is over: "Done!", and the process ends.
Finish ==
  /\ pc = "copy"
  /\ idx > Len(heliumVersionPaths)
  /\ pc' = "exited"
  /\ exitCode' = 0
  /\ UNCHANGED <<env, disk, dlLocals, orch, events, error, hist>>

Next ==
  \/ ResolveSource
  \/ FetchRelease
  \/ SelectAsset
  \/ CheckCache
  \/ Download
  \/ WriteRecord
  \/ Extract
  \/ Search
  \/ getHeliumVersionPaths
  \/ CheckOnly
  \/ CopyOne
  \/ Finish

Spec == Init /\ [][Next]_vars

\* ----------------------------------------------- repeated downloader runs
\* downloadAndExtractChrome called run after run on one machine, over a
\* temporary directory in any state; between two runs other programs may
\* rewrite the artifact or version.json.
DownloaderOptions ==
  {o \in Options : ~o.check /\ ~o.dryRun /\ ~o.chromePath /\ ~o.heliumPath}

InitCache ==
  /\ pc = "fetch"
  /\ platform \in Platforms
  /\ arch \in Archs
  /\ opts \in DownloaderOptions
  /\ files \in [CacheNames -> {0} \cup Contents]
  /\ versionFile \in VersionFiles
  /\ widevineInTemp \in BOOLEAN
  /\ srcTree = SrcTree
  /\ destTree = [d \in DestPaths |-> DestTree0]
  /\ prev = NoPrev
  /\ disk0 = [files |-> files, versionFile |-> versionFile]
  /\ RunLocalsInit

Has(e) == \E i \in 1..Len(events) : events[i] = e

Count(e) == Cardinality({i \in 1..Len(events) : events[i] = e})

\* The run returned or threw; the next call starts.
NextRun ==
  /\ pc \in {"dest", "exited"}
  /\ pc' = "fetch"
  /\ opts' \in DownloaderOptions
  /\ prev' = IF Has("record")
               THEN [valid |-> TRUE, tag |-> release.tag_name, name |-> asset]
               ELSE NoPrev
  /\ release' = NoRelease
  /\ asset' = << >>
  /\ useCache' = FALSE
  /\ chromeWidevinePath' = Null
  /\ events' = << >>
  /\ error' = NoError
  /\ exitCode' = -1
  /\ disk0' = [files |-> files, versionFile |-> versionFile]
  /\ UNCHANGED <<platform, arch, srcTree, disk, chromeFs, heliumFs, heliumVersionPaths,
                 idx, destTree, copyLog, hint>>

\* Another program rewrites a file of the temporary directory between runs.
Tamper ==
  /\ pc = "fetch"
  /\ \/ \E n \in CacheNames, c \in {0} \cup Contents :
          files' = [files EXCEPT ![n] = c] /\ UNCHANGED versionFile
     \/ \E v \in VersionFiles :
          versionFile' = v /\ UNCHANGED files
  /\ prev' = NoPrev
  /\ disk0' = [files |-> files', versionFile |-> versionFile']
  /\ UNCHANGED <<pc, env, widevineInTemp, dlLocals, orch, events, error, exitCode>>

NextCache ==
  \/ FetchRelease
  \/ SelectAsset
  \/ CheckCache
  \/ Download
  \/ WriteRecord
  \/ Extract
  \/ Search
  \/ NextRun
  \/ Tamper

SpecCache == InitCache /\ [][NextCache]_vars

\* -------------------------------------------------------- asset selection
\* findMatchingAsset applied to releases listing any names of NamePool.
RECURSIVE SeqsUpTo(_, _)
SeqsUpTo(S, n) ==
  IF n = 0 THEN {<< >>}
  ELSE SeqsUpTo(S, n - 1) \cup {Append(q, x) : q \in SeqsUpTo(S, n - 1), x \in S}

AssetReleases ==
  {[tag_name |-> 1, assets |-> [i \in 1..Len(q) |-> Asset(q[i])]] :
     q \in SeqsUpTo(NamePool, MaxAssets)}

InitAsset ==
  /\ pc = "select"
  /\ platform \in Platforms
  /\ arch \in Archs
  /\ opts = [check |-> FALSE, dryRun |-> FALSE, chromePath |-> FALSE,
             heliumPath |-> FALSE, forceDownload |-> FALSE]
  /\ files = [n \in CacheNames |-> 0]
  /\ versionFile = AbsentVersionFile
  /\ widevineInTemp = FALSE
  /\ srcTree = SrcTree
  /\ destTree = [d \in DestPaths |-> DestTree0]
  /\ prev = NoPrev
  /\ disk0 = [files |-> files, versionFile |-> versionFile]
  /\ asset = << >>
  /\ useCache = FALSE
  /\ chromeFs = NoChrome
  /\ heliumFs = NoHelium
  /\ chromeWidevinePath = Null
  /\ heliumVersionPaths = << >>
  /\ idx = 0
  /\ copyLog = << >>
  /\ hint = FALSE
  /\ events = <<"fetch">>
  /\ error = NoError
  /\ exitCode = -1
  /\ release \in AssetReleases

NextAsset == SelectAsset

SpecAsset == InitAsset /\ [][NextAsset]_vars

\* ------------------------------------------------------------- copyDir
\* copyDir called again and again on one destination, for any source tree
\* and any tree at the destination; the caller stops at a throw.  The
\* other destinations keep the tree the destination had before.
FilePaths == {<<"manifest.json">>, <<"_platform_specific", "widevinecdm.dll">>, <<"old.dll">>}

TreeOf(f) == {<<q, f[q]>> : q \in {x \in FilePaths : f[x] # 0}}

TreePool == {TreeOf(f) : f \in [FilePaths -> {0} \cup Contents]}

InitCopy ==
  /\ pc = "copyDir"
  /\ platform = "win32"
  /\ arch = "x64"
  /\ opts = [check |-> FALSE, dryRun |-> FALSE, chromePath |-> TRUE,
             heliumPath |-> TRUE, forceDownload |-> FALSE]
  /\ srcTree \in TreePool
  /\ \E t \in TreePool : destTree = [d \in DestPaths |-> t]
  /\ files = [n \in CacheNames |-> 0]
  /\ versionFile = AbsentVersionFile
  /\ widevineInTemp = FALSE
  /\ prev = NoPrev
  /\ disk0 = [files |-> files, versionFile |-> versionFile]
  /\ RunLocalsInit

CopyDirCall ==
  /\ pc = "copyDir"
  /\ Len(copyLog) < MaxCopies
  /\ \E r \in copyDir(srcTree, destTree[CustomHelium]) :
       /\ destTree' = [destTree EXCEPT ![CustomHelium] = r.tree]
       /\ copyLog' = Append(copyLog, [dest |-> CustomHelium, ok |-> r.ok])
       /\ pc' = IF r.ok THEN pc ELSE "thrown"
  /\ events' = Append(events, "copy")
  /\ UNCHANGED <<env, disk, dlLocals, chromeFs, heliumFs, chromeWidevinePath,
                 heliumVersionPaths, idx, hint, error, exitCode, hist>>

NextCopy == CopyDirCall

SpecCopy == InitCopy /\ [][NextCopy]_vars

\* ------------------------------------------------------------ the probes
\* findChromeWidevinePath called once, and findHeliumVersionPath called
\* again and again, over directories holding any entries of a pool of
\* names; the file system may change between two calls.
VersionNames == {HeliumName(1), ChromeVersion}

OtherNames ==
  {<<"D", "i", "c", "t">>,
   <<"1", ".", "0", ".", "0">>,
   <<"1", ".", ".", "0", ".", "1">>,
   <<"1", ".", "0", ".", "0", ".", "1", ".", "2">>,
   <<"1", ".", "0", ".", "0", ".">>}

DistinctNames(q) ==
  \A i, j \in 1..Len(q) : q[i].name = q[j].name => i = j

HeliumProbeEntries ==
  {[name |-> n, isDir |-> TRUE] : n \in VersionNames \cup OtherNames}
    \cup {[name |-> HeliumName(1), isDir |-> FALSE]}

HeliumProbeInstalls ==
  {[base |-> "absent", listable |-> FALSE, entries |-> << >>],
   [base |-> "file", listable |-> FALSE, entries |-> << >>],
   [base |-> "dir", listable |-> FALSE, entries |-> << >>]}
    \cup {[base |-> "dir", listable |-> TRUE, entries |-> q] :
            q \in {x \in SeqsUpTo(HeliumProbeEntries, MaxEntries) : DistinctNames(x)}}

ChromeProbeEntries ==
  {[name |-> n, isDir |-> TRUE, widevine |-> w] :
     n \in VersionNames, w \in {"dir", "file", "absent"}}
    \cup {[name |-> n, isDir |-> TRUE, widevine |-> "dir"] : n \in OtherNames}
    \cup {[name |-> HeliumName(1), isDir |-> FALSE, widevine |-> "absent"]}

ChromeProbeInstalls ==
  {NoChrome}
    \cup {[found |-> TRUE, listable |-> l, direct |-> d, alias |-> a, entries |-> q] :
            l \in BOOLEAN, d \in {"dir", "file", "absent"}, a \in {"dir", "absent"},
            q \in {x \in SeqsUpTo(ChromeProbeEntries, MaxEntries) : DistinctNames(x)}}

InitProbe ==
  /\ pc \in {"probeChrome", "probeHelium"}
  /\ platform \in Platforms
  /\ arch = "x64"
  /\ opts = [check |-> FALSE, dryRun |-> FALSE, chromePath |-> FALSE,
             heliumPath |-> FALSE, forceDownload |-> FALSE]
  /\ srcTree = SrcTree
  /\ destTree = [d \in DestPaths |-> DestTree0]
  /\ files = [n \in CacheNames |-> 0]
  /\ versionFile = AbsentVersionFile
  /\ widevineInTemp = FALSE
  /\ prev = NoPrev
  /\ disk0 = [files |-> files, versionFile |-> versionFile]
  /\ RunLocalsInit

ProbeChrome ==
  /\ pc = "probeChrome"
  /\ pc' = "probed"
  /\ events' = Append(events, "probeChrome")
  /\ \E cfs \in ChromeProbeInstalls :
       /\ chromeFs' = cfs
       /\ chromeWidevinePath' = findChromeWidevinePath(platform, cfs)
  /\ UNCHANGED <<env, disk, dlLocals, heliumFs, heliumVersionPaths, idx, destTree,
                 copyLog, hint, error, exitCode, hist>>

ProbeHelium ==
  /\ pc = "probeHelium"
  /\ Count("probeHelium") < MaxProbes
  /\ events' = Append(events, "probeHelium")
  /\ \E hfs \in HeliumProbeInstalls :
       LET r == findHeliumVersionPath(platform, hfs)
       IN  /\ heliumFs' = hfs
           /\ IF r.ok
                THEN /\ heliumVersionPaths' = IF r.val = Null THEN << >> ELSE <<r.val>>
                     /\ UNCHANGED <<pc, error>>
                ELSE /\ heliumVersionPaths' = << >>
                     /\ pc' = "thrown"
                     /\ error' = r.err
  /\ UNCHANGED <<env, disk, dlLocals, chromeFs, chromeWidevinePath, idx, destTree,
                 copyLog, hint, exitCode, hist>>

NextProbe ==
  \/ ProbeChrome
  \/ ProbeHelium

SpecProbe == InitProbe /\ [][NextProbe]_vars

\* ------------------------------------------------------------------ claims
\* What the code of checkCachedVersion is claimed to compute, stated on the
\* disk: artifact present, record present and parsable, same tag, a
\* checksum, and that checksum the digest of the artifact.
CacheValid ==
  /\ files[asset] # 0
  /\ versionFile.kind = "json"
  /\ versionFile.tag = release.tag_name
  /\ versionFile.checksum # 0
  /\ versionFile.checksum = calculateChecksum(files[asset])

\* C1: with forceDownload unset, the cache check answers true exactly when
\* artifact and record exist, the tags agree, the record has a checksum and
\* it equals the artifact's recomputed checksum; any other disk, an
\* unparsable record included, is a miss and never ends the run.
C1_CacheHitExactly ==
  /\ (~opts.forceDownload /\ pc \in {"download", "extract"} /\ ~Has("download"))
       => /\ useCache <=> CacheValid
          /\ useCache <=> (pc = "extract")
  /\ (pc = "exited" /\ asset # << >>) => (Has("download") \/ Has("extract"))

C1_Witness ==
  /\ ~opts.forceDownload
  /\ pc = "extract"
  /\ useCache
  /\ ~Has("download")

\* C2: with forceDownload set the cache check is skipped: whatever the disk
\* holds, the run downloads, and once the download is complete it has
\* rewritten the record before it extracts.
C2_ForceAlwaysDownloads ==
  opts.forceDownload =>
    /\ ~useCache
    /\ (pc \in {"record", "extract", "search", "dest"} \/ Has("extract")) => Has("download")
    /\ (pc \in {"extract", "search", "dest"} \/ Has("extract"))
         => /\ Has("record")
            /\ versionFile = VersionCache(release.tag_name, asset, calculateChecksum(files[asset]))
    /\ (pc = "exited" /\ asset # << >>) => Has("download")

\* A forced run that downloaded over the valid pair the previous run left.
C2_Witness ==
  /\ opts.forceDownload
  /\ prev.valid
  /\ prev.tag = release.tag_name
  /\ prev.name = asset
  /\ Has("record")
  /\ pc = "dest"

\* C3: after a completed download the record holds the release's tag, the
\* asset's name and the checksum of the file just written; the next run,
\* unforced, with the same release and asset and the files untouched, does
\* not download and uses the cache.
C3_RecordThenCacheHit ==
  /\ Has("record")
       => versionFile = VersionCache(release.tag_name, asset, calculateChecksum(files[asset]))
  /\ (prev.valid /\ ~opts.forceDownload /\ release.tag_name = prev.tag /\ asset = prev.name)
       => /\ ~Has("download")
          /\ pc # "download"
          /\ (pc # "cache") => useCache

C3_Witness ==
  /\ prev.valid
  /\ ~opts.forceDownload
  /\ release.tag_name = prev.tag
  /\ asset = prev.name
  /\ useCache
  /\ pc = "dest"

\* C4: a downloader run past asset selection and the download invokes the
\* extractor exactly once, on a cache hit as after a fresh download, after
\* the download and the record write and before the search.
C4_ExtractOnce ==
  /\ Count("extract") <= 1
  /\ (pc \in {"search", "dest"} \/ Has("search")) => Count("extract") = 1
  /\ (asset # << >> /\ (useCache \/ Has("record")))
       => (pc = "extract" \/ Count("extract") = 1)
  /\ Has("extract") => (useCache \/ (Has("download") /\ Has("record")))
  /\ \A i \in 1..Len(events) :
       events[i] = "extract"
         => /\ \A j \in 1..Len(events) : events[j] \in {"download", "record"} => j < i
            /\ \A j \in 1..Len(events) : events[j] = "search" => j > i

C4_Witness ==
  /\ useCache
  /\ Has("extract")
  /\ pc = "dest"

\* The error of the pattern builder off Windows, by platform and architecture.
NonWindowsError ==
  IF platform \notin {"darwin", "linux"}
    THEN Err("Unsupported platform", platform, "none", "none", << >>)
  ELSE IF arch \notin {"x64", "arm64"}
    THEN Err("Unsupported architecture", arch, "none", "none", << >>)
  ELSE Err("Chrome download is only supported on Windows", "none", "none", "none", << >>)

\* C5 as stated: off Windows the downloader fails at asset selection with
\* the 'Chrome download is only supported on Windows' error.
C5_OnlyWindowsError ==
  (platform # "win32" /\ release # NoRelease /\ pc = "exited")
    => error.kind = "Chrome download is only supported on Windows"

\* C5, amended: off Windows the pattern builder fails, with 'Chrome download
\* is only supported on Windows' on darwin and linux with a supported
\* architecture, else with the 'Unsupported platform' or 'Unsupported
\* architecture' error; the downloader ends at the metadata fetch or at
\* asset selection and never downloads, writes a record or extracts.
C5_NonWindowsNeverDownloads ==
  platform # "win32" =>
    /\ ~getChromeAssetPattern(platform, arch).ok
    /\ getChromeAssetPattern(platform, arch).err = NonWindowsError
    /\ Has("fetch") => pc \in {"select", "exited"}
    /\ (release # NoRelease /\ pc = "exited") => error = NonWindowsError
    /\ ~Has("download") /\ ~Has("record") /\ ~Has("extract")
    /\ chromeWidevinePath.kind # "extracted"

C5_Witness ==
  /\ platform = "darwin"
  /\ release # NoRelease
  /\ pc = "exited"
  /\ error.kind = "Chrome download is only supported on Windows"

ArchPrefix(a) == IF a = "arm64" THEN ARM64 ELSE X64

OtherArch(a) == IF a = "arm64" THEN "x64" ELSE "arm64"

\* name is <prefix>_<one or more digits and dots>_chrome_installer_uncompressed.exe
InstallerOf(prefix, name) ==
  LET k == Len(name) - Len(prefix) - 1 - Len(InstallerSuffix)
  IN  /\ k >= 1
      /\ name = MkName(prefix, SubSeq(name, Len(prefix) + 2, Len(prefix) + 1 + k))
      /\ \A i \in (Len(prefix) + 2)..(Len(prefix) + 1 + k) : name[i] \in Digits \cup {"."}

\* C6: on Windows the pattern of an architecture accepts every
\* <arch>_<dotted version>_chrome_installer_uncompressed.exe and rejects the
\* same name with the other architecture's prefix; findMatchingAsset returns
\* an asset of the release that the pattern accepts, and without one fails
\* with an error naming platform, arch and pattern.
C6_AssetPattern ==
  /\ \A i \in 1..Len(release.assets), a \in {"x64", "arm64"}, v \in DottedVersions :
       release.assets[i].name = MkName(ArchPrefix(a), v)
         => /\ PatternTest(getChromeAssetPattern("win32", a).val, release.assets[i].name)
            /\ ~PatternTest(getChromeAssetPattern("win32", OtherArch(a)).val,
                            release.assets[i].name)
  /\ (platform = "win32" /\ arch \in {"x64", "arm64"})
       => /\ pc = "cache"
               => /\ \E i \in 1..Len(release.assets) : release.assets[i].name = asset
                  /\ InstallerOf(ArchPrefix(arch), asset)
          /\ pc = "exited"
               => /\ \A i \in 1..Len(release.assets) :
                       ~InstallerOf(ArchPrefix(arch), release.assets[i].name)
                  /\ error = Err("Could not find Chrome asset matching pattern for your platform/arch",
                                 "none", platform, arch, ArchPrefix(arch))

\* An arm64 run choosing the arm64 installer listed after the x64 one.
C6_Witness ==
  /\ platform = "win32"
  /\ arch = "arm64"
  /\ pc = "cache"
  /\ Len(release.assets) = 2
  /\ release.assets[1].name = MkName(X64, Version1)
  /\ asset = MkName(ARM64, Version1)

UnsupportedPlatformError == Err("Unsupported platform", platform, "none", "none", << >>)

\* C7 as stated: in both roles the prober on an unsupported platform fails
\* with 'Unsupported platform: <value>' instead of reporting absent (getArch
\* likewise with 'Unsupported architecture: <value>'), while a missing
\* directory makes it report absent without an error.
C7_UnsupportedPlatformFails ==
  /\ ~getPlatform(platform).ok
       => /\ Has("probeChrome") => (pc = "exited" /\ error = UnsupportedPlatformError)
          /\ Has("probeHelium") => (pc = "exited" /\ error = UnsupportedPlatformError)
  /\ arch \notin {"x64", "arm64"}
       => getArch(arch).err = Err("Unsupported architecture", arch, "none", "none", << >>)
  /\ (getPlatform(platform).ok /\ Has("probeChrome") /\ ~chromeFs.found)
       => (chromeWidevinePath.kind \in {"none", "extracted"} /\ error.kind # "Unsupported platform")
  /\ (getPlatform(platform).ok /\ Has("probeHelium") /\ heliumFs.base = "absent")
       => (hint /\ error = NoError)

\* The part of C7 the code keeps: the destination probe on an unsupported
\* platform ends the run with the error naming the value; the source probe
\* on it reports absent, and the run goes on to the downloader.
C7_DestinationRoleFails ==
  ~getPlatform(platform).ok
    => /\ Has("probeHelium") => (pc = "exited" /\ exitCode = 1 /\ error = UnsupportedPlatformError)
       /\ ~findHeliumVersionPath(platform, heliumFs).ok
       /\ findHeliumVersionPath(platform, heliumFs).err = UnsupportedPlatformError
       /\ findChromeWidevinePath(platform, chromeFs) = Null
       /\ (Has("probeChrome") /\ ~Has("fetch")) => pc = "fetch"

\* C8 as stated: a run in which a copy to a destination fails ends with
\* exit code 1.
C8_CopyFailureExitsOne ==
  (pc = "exited" /\ \E i \in 1..Len(copyLog) : ~copyLog[i].ok) => exitCode = 1

\* What the code does in the case of C8: the failure is logged and the run
\* ends with exit code 0.
C8_CopyFailureExitsZero ==
  (pc = "exited" /\ \E i \in 1..Len(copyLog) : ~copyLog[i].ok) => exitCode = 0

\* C9: in check-only and in dry-run mode, with source and destination
\* resolved, copyDir is never called, every destination directory is as it
\* was and the run ends with exit code 0; check-only returns before the
\* loop that looks at dryRun.
C9_NoCopyInCheckOrDryRun ==
  (opts.check \/ opts.dryRun)
    => /\ copyLog = << >>
       /\ ~Has("copy")
       /\ destTree = [d \in DestPaths |-> DestTree0]
       /\ (pc = "exited" /\ heliumVersionPaths # << >>) => exitCode = 0
       /\ opts.check => (pc # "copy" /\ idx = 0)

\* A dry run over two destinations, ended.
C9_Witness ==
  /\ opts.dryRun
  /\ ~opts.check
  /\ Len(heliumVersionPaths) = 2
  /\ idx = 3
  /\ pc = "exited"
  /\ exitCode = 0

\* C10: without a destination override, a destination probe that finds no
\* Helium installation ends the run with the installation hint and exit
\* code 1, with no copyDir call, whatever the mode.
C10_NoHeliumExitsOne ==
  LET r == findHeliumVersionPath(platform, heliumFs)
  IN  /\ (~opts.heliumPath /\ Has("probeHelium") /\ r.ok /\ r.val = Null)
           => /\ hint
              /\ pc = "exited"
              /\ exitCode = 1
              /\ copyLog = << >>
              /\ destTree = [d \in DestPaths |-> DestTree0]
      /\ hint => (exitCode = 1 /\ ~opts.heliumPath /\ r.ok /\ r.val = Null)

\* A dry run on a base directory that holds no version folder.
C10_Witness ==
  /\ hint
  /\ opts.dryRun
  /\ heliumFs.base = "dir"
  /\ pc = "exited"
  /\ exitCode = 1

\* The run was given --chrome-path and --helium-path, neither --check nor
\* --dry-run, and its one copyDir call succeeded.
ExplicitCopyDone ==
  /\ opts.chromePath
  /\ opts.heliumPath
  /\ ~opts.check
  /\ ~opts.dryRun
  /\ pc = "exited"
  /\ copyLog = <<[dest |-> CustomHelium, ok |-> TRUE]>>

\* C11 as stated: with source and destination both given explicitly and
\* stale files in the destination directory, a run without --dry-run and
\* --check whose copy succeeds ends with the contents of the directory
\* given as destination identical to the source's, the stale files gone.
C11_DestinationEqualsSource ==
  ExplicitCopyDone => destTree[CustomHelium] = srcTree

\* What the code does in the case of C11: the copy goes to the WidevineCdm
\* entry of the directory given with --helium-path; the files of the
\* directory itself, stale ones included, are as they were.
C11_CopiesIntoSubdirectory ==
  ExplicitCopyDone
    => /\ Under(destTree[CustomHelium], "WidevineCdm") = srcTree
       /\ Outside(destTree[CustomHelium], "WidevineCdm") = StaleTree

\* The tree the destination held before the first copyDir call.
DestBefore == destTree[Path("helium", HeliumName(1))]

\* C12: after a copyDir(src, dest) that succeeds dest holds exactly the
\* tree of src, nested directories included, files of the same name
\* overwritten and every other entry of dest removed; a second call with
\* the source unchanged leaves the same tree.
C12_CopyDirReplaces ==
  (copyLog # << >> /\ copyLog[Len(copyLog)].ok) => destTree[CustomHelium] = srcTree

\* Two successful calls, of a source with a nested file, on a destination
\* that held a file of the source under other content and a file the
\* source does not have.
C12_Witness ==
  /\ Len(copyLog) = 2
  /\ copyLog[1].ok
  /\ copyLog[2].ok
  /\ \E e \in srcTree : Len(e[1]) = 2
  /\ \E e \in srcTree, d \in DestBefore : d[1] = e[1] /\ d[2] # e[2]
  /\ \E d \in DestBefore : \A e \in srcTree : e[1] # d[1]
  /\ destTree[CustomHelium] = srcTree

\* C13: with several destinations a copyDir that fails on one does not end
\* the run; copyDir is called once on every destination, in the order of
\* the list, whatever the outcome of the calls before, and the run goes on
\* to its end.
C13_EveryDestinationAttempted ==
  (~opts.check /\ ~opts.dryRun /\ heliumVersionPaths # << >>)
    => /\ pc \in {"mode", "copy", "exited"}
       /\ \A i \in 1..Len(copyLog) :
            i <= Len(heliumVersionPaths) /\ copyLog[i].dest = heliumVersionPaths[i]
       /\ pc = "copy" => Len(copyLog) = idx - 1
       /\ pc = "exited" => (Len(copyLog) = Len(heliumVersionPaths) /\ error = NoError)
       /\ Count("copy") = Len(copyLog)

\* The copy to the first of two destinations failed, the copy to the
\* second was made and succeeded.
C13_Witness ==
  /\ Len(heliumVersionPaths) = 2
  /\ Len(copyLog) = 2
  /\ ~copyLog[1].ok
  /\ copyLog[2].ok
  /\ copyLog[2].dest = heliumVersionPaths[2]
  /\ Under(destTree[heliumVersionPaths[2]], "WidevineCdm") = srcTree
  /\ pc = "exited"

\* C14: the source is resolved by strict priority.  An override path is
\* the source, with no probe and no download; without an override the
\* path the local probe found is the source, with no download; the
\* downloader is called only without an override and after a probe that
\* found nothing, and only then is the source the extracted directory.
C14_SourcePriority ==
  LET probed == findChromeWidevinePath(platform, chromeFs)
  IN  /\ opts.chromePath
           => /\ ~Has("probeChrome")
              /\ ~Has("fetch")
              /\ pc # "start" => chromeWidevinePath = Path("custom", << >>)
      /\ (Has("probeChrome") /\ probed # Null)
           => /\ ~opts.chromePath
              /\ ~Has("fetch")
              /\ ~Has("download")
              /\ chromeWidevinePath = probed
      /\ Has("fetch")
           => /\ ~opts.chromePath
              /\ events[1] = "probeChrome"
              /\ probed = Null
              /\ chromeWidevinePath \in {Null, Path("extracted", << >>)}
      /\ chromeWidevinePath = Path("extracted", << >>) => (Has("fetch") /\ Has("search"))

\* No override, a probe that found nothing, then a download whose
\* extracted directory is the source.
C14_Witness ==
  /\ ~opts.chromePath
  /\ Has("download")
  /\ events[1] = "probeChrome"
  /\ findChromeWidevinePath(platform, chromeFs) = Null
  /\ chromeWidevinePath = Path("extracted", << >>)
  /\ pc = "dest"

\* C15: an error thrown while the source is resolved (release fetch,
\* asset selection, download, extraction, search of the extracted files)
\* ends the run with exit code 1 before the destination is resolved: no
\* destination probe, no copyDir call, every destination as it was.
C15_SourceErrorExitsOne ==
  /\ (error # NoError /\ chromeWidevinePath = Null)
       => /\ pc = "exited"
          /\ exitCode = 1
          /\ ~Has("probeHelium")
          /\ heliumVersionPaths = << >>
          /\ ~hint
          /\ copyLog = << >>
          /\ destTree = [d \in DestPaths |-> DestTree0]
  /\ (pc \in {"dest", "mode", "copy"} \/ Has("probeHelium"))
       => chromeWidevinePath # Null

\* The extraction failed, after a download that was made and recorded.
C15_Witness ==
  /\ error.kind = "unpack failed"
  /\ Has("record")
  /\ chromeWidevinePath = Null
  /\ pc = "exited"
  /\ exitCode = 1

\* The entries of the listed base directory that are directories named by
\* four groups of digits.
HeliumHits ==
  {i \in 1..Len(heliumFs.entries) :
     heliumFs.entries[i].isDir /\ heliumFs.entries[i].name \in VersionNames}

\* C16: the destination probe returns the first child directory of the
\* per-OS base directory, in listing order, whose name is four groups of
\* digits separated by dots; it returns absent when the base directory
\* does not exist, is not a directory or has no such child; each call
\* answers from the file system as it is at that call.
C16_FirstVersionFolder ==
  (Has("probeHelium") /\ getPlatform(platform).ok)
    => /\ (heliumFs.base = "dir" /\ heliumFs.listable /\ HeliumHits # {})
            => \E i \in HeliumHits :
                 /\ \A j \in HeliumHits : i <= j
                 /\ heliumVersionPaths = <<Path("helium", heliumFs.entries[i].name)>>
                 /\ error = NoError
       /\ (heliumFs.base # "dir" \/ (heliumFs.listable /\ HeliumHits = {}))
            => (heliumVersionPaths = << >> /\ error = NoError)

\* A second call, over a base directory listing two version folders, of
\* which the probe returned the first.
C16_Witness ==
  /\ Count("probeHelium") = 2
  /\ platform = "linux"
  /\ heliumFs.base = "dir"
  /\ Len(heliumFs.entries) = 2
  /\ heliumFs.entries[1].name = ChromeVersion
  /\ HeliumHits = {1, 2}
  /\ heliumVersionPaths = <<Path("helium", ChromeVersion)>>

\* The entries of the listed directory that are directories named by four
\* groups of digits and hold WidevineCdm as a directory.
ChromeHits ==
  {i \in 1..Len(chromeFs.entries) :
     /\ chromeFs.entries[i].isDir
     /\ chromeFs.entries[i].name \in VersionNames
     /\ chromeFs.entries[i].widevine = "dir"}

\* What the version scan of C17 returns over the listed directory.
FirstChromeHit(path) ==
  IF ChromeHits = {}
    THEN path = Null
    ELSE \E i \in ChromeHits :
           /\ \A j \in ChromeHits : i <= j
           /\ path = Path("version", chromeFs.entries[i].name)

\* C17: on Windows the source probe returns the WidevineCdm directory of
\* the first subdirectory, in listing order, that is named by four groups
\* of digits and holds WidevineCdm as a directory, and absent when there is
\* none; on Linux the direct WidevineCdm path beside the executable wins
\* when it is a directory, and the same scan answers when the direct path
\* does not exist.
C17_VersionScanFirstHit ==
  (Has("probeChrome") /\ chromeFs.found)
    => /\ (platform = "win32" /\ chromeFs.listable) => FirstChromeHit(chromeWidevinePath)
       /\ (platform = "linux" /\ chromeFs.direct = "dir")
            => chromeWidevinePath = Path("direct", << >>)
       /\ (platform = "linux" /\ chromeFs.direct = "absent" /\ chromeFs.listable)
            => FirstChromeHit(chromeWidevinePath)

\* On Linux without the direct path: the first version folder lacks
\* WidevineCdm, the second holds it and is the one returned.
C17_Witness ==
  /\ Has("probeChrome")
  /\ platform = "linux"
  /\ chromeFs.found
  /\ chromeFs.direct = "absent"
  /\ Len(chromeFs.entries) = 2
  /\ chromeFs.entries[1].name = HeliumName(1)
  /\ chromeFs.entries[1].isDir
  /\ chromeFs.entries[1].widevine = "absent"
  /\ ChromeHits = {2}
  /\ chromeWidevinePath = Path("version", ChromeVersion)

\* C18: a download that fails (HTTP status, Content-Length, stream read)
\* writes nothing: the artifact and version.json are as the run found
\* them, the extractor and the search are not called, and the download is
\* not tried again in the run.
C18_FailedDownloadWritesNothing ==
  /\ Count("download") <= 1
  /\ error.kind \in DownloadFailures
       => /\ pc = "exited"
          /\ exitCode = 1
          /\ files = disk0.files
          /\ versionFile = disk0.versionFile
          /\ Count("download") = 1
          /\ ~Has("record")
          /\ ~Has("extract")
          /\ ~Has("search")
          /\ chromeWidevinePath = Null

\* A forced download that failed while reading the stream, over an
\* artifact and a record that were valid for the release.
C18_Witness ==
  /\ error.kind = "stream read failed"
  /\ opts.forceDownload
  /\ CacheValid
  /\ versionFile.checksum = calculateChecksum(files[asset])
  /\ files = disk0.files
  /\ versionFile = disk0.versionFile
  /\ pc = "exited"

\* The errors of a network call: the release fetch and the download.
NetworkErrors == {"Failed to connect to GitHub API"} \cup DownloadFailures

\* The run has come to the extraction step.
AtExtraction == pc = "extract" \/ Has("extract")

\* C19: whatever artifact and version.json a downloader run finds, once
\* it comes to the extraction step version.json records the tag of the
\* current release and the checksum of the artifact being extracted; a run
\* takes the cache-hit path only over an artifact and a record that passed
\* the tag and checksum checks, and then writes nothing; and on Windows a
\* run that has selected its asset stops short of the extraction only on
\* an error of a network call.
C19_SelfHealingCache ==
  /\ AtExtraction
       => /\ files[asset] # 0
          /\ versionFile.kind = "json"
          /\ versionFile.tag = release.tag_name
          /\ versionFile.checksum = calculateChecksum(files[asset])
  /\ (AtExtraction /\ useCache)
       => /\ ~opts.forceDownload
          /\ ~Has("download")
          /\ files = disk0.files
          /\ versionFile = disk0.versionFile
  /\ (AtExtraction /\ ~useCache) => (Has("download") /\ Has("record"))
  /\ (platform = "win32" /\ pc = "exited" /\ ~Has("extract"))
       => \/ error.kind \in NetworkErrors
          \/ asset = << >>
  /\ pc \in {"fetch", "select", "cache", "download", "record", "extract"}
       => ENABLED (FetchRelease \/ SelectAsset \/ CheckCache \/ Download
                     \/ WriteRecord \/ Extract)

\* A run on Windows that found an artifact whose checksum was not the
\* recorded one, downloaded, and extracts under a record that fits.
C19_Witness ==
  /\ platform = "win32"
  /\ Has("extract")
  /\ ~opts.forceDownload
  /\ disk0.versionFile.kind = "json"
  /\ disk0.versionFile.tag = release.tag_name
  /\ disk0.versionFile.checksum # 0
  /\ disk0.files[asset] # 0
  /\ disk0.versionFile.checksum # calculateChecksum(disk0.files[asset])
  /\ Has("download")
  /\ versionFile.checksum = calculateChecksum(files[asset])
  /\ versionFile.tag = release.tag_name

====
